---- MODULE Spec2Model ----
(***************************************************************************)
(* Model of poly.py: the polynomial learning-rate schedule with linear     *)
(* warmup (calculate_lr_schedule) and the command-line run that samples    *)
(* it, configures the axis, saves the chart and prints a summary (main,    *)
(* plot_schedules, setup_log_scale, generate_filename).                    *)
(*                                                                         *)
(* Numbers.  A Python/numpy number is modelled as a record                 *)
(*   [k |-> "fin", n |-> numerator, d |-> denominator]   (d > 0, reduced)  *)
(* or one of the non-finite results of numpy arithmetic                    *)
(*   k = "nan", k = "inf", k = "ninf",                                     *)
(* or k = "raise": the operation raised ZeroDivisionError (plain Python    *)
(* numbers).  Finite arithmetic is exact rational arithmetic: the rounding *)
(* of binary64 operations is not modelled, and exponents are integers.     *)
(***************************************************************************)
EXTENDS Integers, Sequences, FiniteSets, TLC

\* ---------------------------------------------------------------- bounds
MaxSteps == 2      \* total_steps and warmup_steps range over -1..MaxSteps
MaxRate  == 1      \* rates range over the halves in -MaxRate..MaxRate
MaxPower == 2      \* powers range over -1..MaxPower
NumSamples == 5    \* points of np.linspace(0, steps, 1000), scaled down

\* ------------------------------------------------------------ arithmetic
Abs(x) == IF x < 0 THEN 0 - x ELSE x

RECURSIVE GCD(_, _)
GCD(a, b) == IF b = 0 THEN a ELSE GCD(b, a % b)

\* The finite number n/d (d # 0), reduced, with a positive denominator.
Fin(n, d) ==
    LET g == GCD(Abs(n), Abs(d))
        s == IF d < 0 THEN 0 - 1 ELSE 1
    IN  [k |-> "fin", n |-> (s * n) \div g, d |-> (s * d) \div g]

FromInt(i) == [k |-> "fin", n |-> i, d |-> 1]
Zero   == FromInt(0)
One    == FromInt(1)
NaN    == [k |-> "nan",   n |-> 0, d |-> 1]
PosInf == [k |-> "inf",   n |-> 0, d |-> 1]
NegInf == [k |-> "ninf",  n |-> 0, d |-> 1]
\* ZeroDivisionError raised by an operation on plain Python numbers.
ZeroDivisionError == [k |-> "raise", n |-> 0, d |-> 1]
\* No value: the call has not been made.
NoValue == [k |-> "none", n |-> 0, d |-> 1]

IsFin(a) == a.k = "fin"

\* -1, 0 or 1: the sign of a number that is not nan.
Sign(a) ==
    CASE a.k = "inf"  -> 1
      [] a.k = "ninf" -> 0 - 1
      [] OTHER        -> IF a.n > 0 THEN 1 ELSE IF a.n < 0 THEN 0 - 1 ELSE 0

Signed(s) == IF s > 0 THEN PosInf ELSE IF s < 0 THEN NegInf ELSE NaN

\* a < b on finite numbers.
Lt(a, b) == a.n * b.d < b.n * a.d
\* a <= b on finite numbers.
Le(a, b) == a.n * b.d <= b.n * a.d

\* progress >= 1.0: false for nan, true for +inf.
Ge1(a) ==
    CASE a.k = "fin" -> a.n >= a.d
      [] a.k = "inf" -> TRUE
      [] OTHER       -> FALSE

Neg(a) ==
    CASE a.k = "fin"  -> Fin(0 - a.n, a.d)
      [] a.k = "inf"  -> NegInf
      [] a.k = "ninf" -> PosInf
      [] OTHER        -> a

\* a + b.
Add(a, b) ==
    CASE a.k = "raise" \/ b.k = "raise" -> ZeroDivisionError
      [] a.k = "nan" \/ b.k = "nan"     -> NaN
      [] IsFin(a) /\ IsFin(b)           ->
            LET g == GCD(a.d, b.d)
            IN  Fin(a.n * (b.d \div g) + b.n * (a.d \div g), (a.d \div g) * b.d)
      [] IsFin(a)                       -> b
      [] IsFin(b)                       -> a
      [] OTHER                          -> IF a.k = b.k THEN a ELSE NaN

\* a - b.
Sub(a, b) == Add(a, Neg(b))

\* a * b.
Mul(a, b) ==
    CASE a.k = "raise" \/ b.k = "raise" -> ZeroDivisionError
      [] a.k = "nan" \/ b.k = "nan"     -> NaN
      [] IsFin(a) /\ IsFin(b)           ->
            LET g1 == GCD(Abs(a.n), b.d)
                g2 == GCD(Abs(b.n), a.d)
            IN  Fin((a.n \div g1) * (b.n \div g2), (a.d \div g2) * (b.d \div g1))
      [] OTHER                          -> Signed(Sign(a) * Sign(b))

\* Variant: a zero divisor raises ZeroDivisionError on numpy numbers too.
TrueDiv_python(a, b, np) ==
    IF b.n = 0 THEN ZeroDivisionError ELSE Fin(a.n * b.d, a.d * b.n)

\* a / b, a and b finite.  A zero divisor raises ZeroDivisionError on plain
\* Python numbers; on a numpy float64 it yields nan (0/0) or a signed
\* infinity, with a RuntimeWarning only.
TrueDiv(a, b, np) ==
    IF b.n = 0
    THEN IF np THEN Signed(Sign(a)) ELSE ZeroDivisionError
    ELSE Fin(a.n * b.d, a.d * b.n)

RECURSIVE PowNat(_, _)
PowNat(x, p) == IF p = 0 THEN One ELSE Mul(x, PowNat(x, p - 1))

\* x ** p for an integer exponent p.
Pow(x, p, np) ==
    CASE x.k = "raise" -> ZeroDivisionError
      [] x.k = "nan"   -> IF p = 0 THEN One ELSE NaN
      [] x.k = "fin"   ->
            IF p >= 0 THEN PowNat(x, p)
            ELSE IF x.n = 0
                 THEN IF np THEN PosInf ELSE ZeroDivisionError
                 ELSE PowNat(Fin(x.d, x.n), 0 - p)
      [] OTHER         ->
            IF p = 0 THEN One
            ELSE IF p < 0 THEN Zero
            ELSE IF x.k = "ninf" /\ p % 2 = 1 THEN NegInf ELSE PosInf

\* ------------------------------------------------ calculate_lr_schedule
\* Variant: the clamp tests progress > 1.0 instead of progress >= 1.0.
calculate_lr_schedule_clamp_gt(t, total_steps, init_lr, final_lr, power, warmup_steps, np) ==
    IF Lt(t, FromInt(warmup_steps))
    THEN Mul(init_lr, TrueDiv(t, FromInt(warmup_steps), np))
    ELSE LET t_adjusted == Sub(t, FromInt(warmup_steps))
             total_steps_adjusted == total_steps - warmup_steps
             progress == TrueDiv(t_adjusted, FromInt(total_steps_adjusted), np)
         IN  IF progress.k = "raise" THEN ZeroDivisionError
             ELSE IF Ge1(progress) /\ progress # One THEN final_lr
             ELSE LET decay_factor == Pow(Sub(One, progress), power, np)
                      lr_range == Sub(init_lr, final_lr)
                  IN  Add(final_lr, Mul(lr_range, decay_factor))

\* Variant: the decay factor is progress ** power instead of
\* (1 - progress) ** power.
calculate_lr_schedule_no_complement(t, total_steps, init_lr, final_lr, power, warmup_steps, np) ==
    IF Lt(t, FromInt(warmup_steps))
    THEN Mul(init_lr, TrueDiv(t, FromInt(warmup_steps), np))
    ELSE LET t_adjusted == Sub(t, FromInt(warmup_steps))
             total_steps_adjusted == total_steps - warmup_steps
             progress == TrueDiv(t_adjusted, FromInt(total_steps_adjusted), np)
         IN  IF progress.k = "raise" THEN ZeroDivisionError
             ELSE IF Ge1(progress) THEN final_lr
             ELSE LET decay_factor == Pow(progress, power, np)
                      lr_range == Sub(init_lr, final_lr)
                  IN  Add(final_lr, Mul(lr_range, decay_factor))

\* Variant: the warmup ramps from final_lr to init_lr instead of from 0.
calculate_lr_schedule_warmup_from_final(t, total_steps, init_lr, final_lr, power, warmup_steps, np) ==
    IF Lt(t, FromInt(warmup_steps))
    THEN Add(final_lr, Mul(Sub(init_lr, final_lr),
                           TrueDiv(t, FromInt(warmup_steps), np)))
    ELSE LET t_adjusted == Sub(t, FromInt(warmup_steps))
             total_steps_adjusted == total_steps - warmup_steps
             progress == TrueDiv(t_adjusted, FromInt(total_steps_adjusted), np)
         IN  IF progress.k = "raise" THEN ZeroDivisionError
             ELSE IF Ge1(progress) THEN final_lr
             ELSE LET decay_factor == Pow(Sub(One, progress), power, np)
                      lr_range == Sub(init_lr, final_lr)
                  IN  Add(final_lr, Mul(lr_range, decay_factor))

\* Variant: lr_range has the wrong sign (final_lr - init_lr).
calculate_lr_schedule_range_sign(t, total_steps, init_lr, final_lr, power, warmup_steps, np) ==
    IF Lt(t, FromInt(warmup_steps))
    THEN Mul(init_lr, TrueDiv(t, FromInt(warmup_steps), np))
    ELSE LET t_adjusted == Sub(t, FromInt(warmup_steps))
             total_steps_adjusted == total_steps - warmup_steps
             progress == TrueDiv(t_adjusted, FromInt(total_steps_adjusted), np)
         IN  IF progress.k = "raise" THEN ZeroDivisionError
             ELSE IF Ge1(progress) THEN final_lr
             ELSE LET decay_factor == Pow(Sub(One, progress), power, np)
                      lr_range == Sub(final_lr, init_lr)
                  IN  Add(final_lr, Mul(lr_range, decay_factor))

\* np: t is a numpy float64 (as in plot_schedules) rather than a plain
\* Python number.
calculate_lr_schedule(t, total_steps, init_lr, final_lr, power, warmup_steps, np) ==
    IF Lt(t, FromInt(warmup_steps))
    THEN Mul(init_lr, TrueDiv(t, FromInt(warmup_steps), np))
    ELSE LET t_adjusted == Sub(t, FromInt(warmup_steps))
             total_steps_adjusted == total_steps - warmup_steps
             progress == TrueDiv(t_adjusted, FromInt(total_steps_adjusted), np)
         IN  IF progress.k = "raise" THEN ZeroDivisionError
             ELSE IF Ge1(progress) THEN final_lr
             ELSE LET decay_factor == Pow(Sub(One, progress), power, np)
                      lr_range == Sub(init_lr, final_lr)
                  IN  Add(final_lr, Mul(lr_range, decay_factor))

\* ------------------------------------------------------------ input sets
StepVals  == (0 - 1)..MaxSteps
\* t: the multiples of 1/(NumSamples - 1) from just below 0 to MaxSteps + 1,
\* which include every point np.linspace samples for steps in 0..MaxSteps.
TVals     == {Fin(i, NumSamples - 1) : i \in (0 - 1)..((NumSamples - 1) * (MaxSteps + 1))}
RateVals  == {Fin(i, 2) : i \in (0 - 2 * MaxRate)..(2 * MaxRate)}
PowerVals == (0 - 1)..MaxPower

\* --------------------------------------------------------------- formats
RECURSIVE Pow10(_)
Pow10(e) == IF e = 0 THEN 1 ELSE 10 * Pow10(e - 1)

\* Largest e >= 0 with 10^e <= n/d, for n >= d > 0.
RECURSIVE ExpUp(_, _, _)
ExpUp(n, d, e) == IF n >= d * Pow10(e + 1) THEN ExpUp(n, d, e + 1) ELSE e

\* Smallest e > 0 with n * 10^e >= d, for 0 < n < d.
RECURSIVE ExpDown(_, _, _)
ExpDown(n, d, e) == IF n * Pow10(e) >= d THEN e ELSE ExpDown(n, d, e + 1)

\* n/d rounded to the nearest integer, ties to even (n >= 0, d > 0).
RoundHalfEven(n, d) ==
    LET q == n \div d
        r == n % d
    IN  IF 2 * r < d THEN q
        ELSE IF 2 * r > d THEN q + 1
        ELSE IF q % 2 = 0 THEN q ELSE q + 1

\* The exponent part of a number in scientific notation: sign and at least
\* two digits.
ExpStr(e) ==
    (IF e < 0 THEN "-" ELSE "+") \o (IF Abs(e) < 10 THEN "0" ELSE "")
        \o ToString(Abs(e))

\* f'{x:.<prec>e}' for a finite x and prec in {0, 1}.
SciFormat(x, prec) ==
    IF x.n = 0
    THEN (IF prec = 0 THEN "0" ELSE "0.0") \o "e+00"
    ELSE LET a  == Abs(x.n)
             e0 == IF a >= x.d THEN ExpUp(a, x.d, 0) ELSE 0 - ExpDown(a, x.d, 1)
             sn == a * Pow10(prec) * (IF e0 < 0 THEN Pow10(0 - e0) ELSE 1)
             sd == x.d * (IF e0 >= 0 THEN Pow10(e0) ELSE 1)
             m0 == RoundHalfEven(sn, sd)
             carry == m0 = Pow10(prec + 1)
             m  == IF carry THEN Pow10(prec) ELSE m0
             e  == IF carry THEN e0 + 1 ELSE e0
             mant == IF prec = 0 THEN ToString(m)
                     ELSE ToString(m \div 10) \o "." \o ToString(m % 10)
         IN  (IF x.n < 0 THEN "-" ELSE "") \o mant \o "e" \o ExpStr(e)

\* str(p) of a float p with an integer value: '2.0', '-1.0'.
StrFloat(p) == ToString(p) \o ".0"

\* '-'.join(strs)
RECURSIVE Join(_)
Join(strs) ==
    IF Len(strs) = 0 THEN ""
    ELSE IF Len(strs) = 1 THEN strs[1]
    ELSE strs[1] \o "-" \o Join(Tail(strs))

generate_filename(a) ==
    LET powers_str   == "p" \o Join([i \in 1..Len(a.powers) |-> StrFloat(a.powers[i])])
        lr_str       == "lr" \o SciFormat(a.learning_rate, 0)
        lr_end_str   == "lre" \o SciFormat(a.lr_end, 0)
        steps_str    == "s" \o ToString(a.steps)
        warmup_str   == "w" \o ToString(a.warmup)
        scale_str    == "scale_" \o a.log_scale
        notation_str == "not_" \o a.notation
        dpi_str      == "dpi" \o ToString(a.dpi)
    IN  "lr_decay_" \o powers_str \o "_" \o lr_str \o "_" \o lr_end_str \o "_"
            \o steps_str \o "_" \o warmup_str \o "_" \o scale_str \o "_"
            \o notation_str \o "_" \o dpi_str \o ".jpg"

\* ---------------------------------------------------------- command line
MaxPowerCount == 2     \* number of powers given with -p

\* argparse defaults of setup_parser.
DefaultOutput == "lr_schedule.jpg"
DefaultLearningRate == Fin(1, 10000)
DefaultLrEnd  == Fin(1, 10000000)
DefaultSteps  == 4000
DefaultWarmup == 400
DefaultDpi    == 300

\* An option that is absent (<<>>) or given with a value (<<v>>).
Opt(S) == {<<>>} \cup {<<v>> : v \in S}
OrDefault(o, dflt) == IF o = <<>> THEN dflt ELSE o[1]

\* The four numeric options -lr, -lre, -s, -w, given together.
Numeric ==
    [lr : {Fin(3, 2)}, lre : {Zero}, s : StepVals, w : (0 - 1)..(MaxSteps + 1)]

RunPowers == {0, 2}
PowerLists ==
    UNION {[1..n -> RunPowers] : n \in 1..MaxPowerCount}

\* The command lines: none of the options ("empty"), -h ("help"), one
\* that argparse rejects ("malformed"), and -p with further options ("ok").
\* A command line without -p is left out unless it is empty: the default
\* powers are fractional.
OkCmds ==
    [kind : {"ok"}, p : PowerLists, num : Opt(Numeric),
     o : Opt({DefaultOutput, "out.png"}), dpi : Opt({72}),
     l : {"none", "standard", "fine", "wide"}, n : {"s", "d"}]

OtherCmd(kind) ==
    [kind |-> kind, p |-> <<>>, num |-> <<>>, o |-> <<>>, dpi |-> <<>>,
     l |-> "none", n |-> "s"]

Cmds == OkCmds \cup {OtherCmd("empty"), OtherCmd("help"), OtherCmd("malformed")}

\* len(sys.argv): the program name and the tokens of the options given
\* (-p and its values, -l and -n with one value each; -lr, -lre, -s, -w
\* with one value each when given; -o and --dpi likewise).
Argc(c) ==
    CASE c.kind = "empty"     -> 1
      [] c.kind = "help"      -> 2
      [] c.kind = "malformed" -> 3
      [] OTHER -> 6 + Len(c.p) + 8 * Len(c.num) + 2 * Len(c.o) + 2 * Len(c.dpi)

NoArgs ==
    [powers |-> <<>>, learning_rate |-> Zero, lr_end |-> Zero, steps |-> 0,
     warmup |-> 0, output |-> "", dpi |-> 0, log_scale |-> "", notation |-> ""]

\* parser.parse_args() on a well-formed command line.
parse_args(c) ==
    [powers        |-> c.p,
     learning_rate |-> IF c.num = <<>> THEN DefaultLearningRate ELSE c.num[1].lr,
     lr_end        |-> IF c.num = <<>> THEN DefaultLrEnd ELSE c.num[1].lre,
     steps         |-> IF c.num = <<>> THEN DefaultSteps ELSE c.num[1].s,
     warmup        |-> IF c.num = <<>> THEN DefaultWarmup ELSE c.num[1].w,
     output        |-> OrDefault(c.o, DefaultOutput),
     dpi           |-> OrDefault(c.dpi, DefaultDpi),
     log_scale     |-> c.l,
     notation      |-> c.n]

\* np.linspace(start, stop, num): num >= 2 evenly spaced points, the last
\* one stop itself.
linspace(start, stop, num) ==
    [i \in 1..num |->
        Add(start, Mul(Sub(stop, start), Fin(i - 1, num - 1)))]

\* The samples of one power: the list comprehension of plot_schedules.
lr_schedule(a, power) ==
    LET t == linspace(Zero, FromInt(a.steps), NumSamples)
    IN  [i \in 1..NumSamples |->
            calculate_lr_schedule(t[i], a.steps, a.learning_rate, a.lr_end,
                                  power, a.warmup, TRUE)]

NoAxis ==
    [yscale |-> "", major_formatter |-> "", minor_formatter |-> "",
     major_numticks |-> 0, minor_numticks |-> 0, yticks |-> <<>>,
     ylim |-> <<>>]

\* The axis as setup_log_scale leaves it.
setup_log_scale(a, scale_type) ==
    IF scale_type = "none"
    THEN [yscale |-> "linear",
          major_formatter |-> IF a.notation = "s" THEN "0e" ELSE "plain",
          minor_formatter |-> IF a.notation = "s" THEN "null" ELSE "",
          major_numticks |-> 0, minor_numticks |-> 0,
          yticks |-> linspace(a.lr_end, a.learning_rate, 6),
          ylim |-> <<Mul(a.lr_end, Fin(95, 100)),
                     Mul(a.learning_rate, Fin(105, 100))>>]
    ELSE [yscale |-> "log",
          major_formatter |-> "0e",
          minor_formatter |-> IF scale_type = "fine" THEN "null" ELSE "",
          major_numticks |-> IF scale_type = "fine" THEN 8 ELSE 6,
          minor_numticks |-> IF scale_type = "fine" THEN 8 ELSE 0,
          yticks |-> <<>>,
          ylim |-> <<Mul(a.lr_end, Fin(8, 10)),
                     Mul(a.learning_rate, Fin(12, 10))>>]

HelpText == "usage: poly.py [-h] [-p POWERS [POWERS ...]] ..."
Running  == 0 - 1

VARIABLES
    call,       \* the arguments of a direct call of calculate_lr_schedule
    ret,        \* what that call returned
    cmd,        \* the command line (sys.argv)
    pc,         \* where the run is
    args,       \* the argparse namespace
    series,     \* the sample lists computed so far, one per power
    axis,       \* the axis configuration
    writes,     \* the paths savefig has written, in order
    stdout,     \* the lines printed to standard output
    stderr,     \* what was written to standard error
    exitCode,   \* the process exit code, Running while it runs
    events      \* the stages the run has gone through, in order

fnvars  == <<call, ret>>
runvars == <<cmd, pc, args, series, axis, writes, stdout, stderr, exitCode, events>>
vars    == <<call, ret, cmd, pc, args, series, axis, writes, stdout, stderr,
             exitCode, events>>

NoCall ==
    [t |-> Zero, total_steps |-> 0, init_lr |-> Zero, final_lr |-> Zero,
     power |-> 0, warmup_steps |-> 0, np |-> FALSE]

\* The process before main runs.
RunStart(c) ==
    /\ cmd = c
    /\ pc = "main"
    /\ args = NoArgs
    /\ series = <<>>
    /\ axis = NoAxis
    /\ writes = <<>>
    /\ stdout = <<>>
    /\ stderr = <<>>
    /\ exitCode = Running
    /\ events = <<>>

\* ------------------------------------------------------------------ main
\* Variant: len(sys.argv) <= 2.
NoArguments_le2 == Argc(cmd) <= 2

\* len(sys.argv) == 1
NoArguments == Argc(cmd) = 1

Exit(code) ==
    /\ pc' = "exited"
    /\ exitCode' = code

\* main, no arguments: print the help and exit with code 1.
MainHelpExit ==
    /\ pc = "main"
    /\ NoArguments
    /\ stdout' = Append(stdout, HelpText)
    /\ Exit(1)
    /\ UNCHANGED <<call, ret, cmd, args, series, axis, writes, stderr, events>>

\* main, parse_args on -h: argparse prints the help and exits with code 0.
MainParseHelp ==
    /\ pc = "main"
    /\ ~NoArguments
    /\ cmd.kind = "help"
    /\ stdout' = Append(stdout, HelpText)
    /\ Exit(0)
    /\ UNCHANGED <<call, ret, cmd, args, series, axis, writes, stderr, events>>

\* main, parse_args on a command line it rejects: usage error, exit code 2.
MainParseError ==
    /\ pc = "main"
    /\ ~NoArguments
    /\ cmd.kind = "malformed"
    /\ stderr' = Append(stderr, "error: argument")
    /\ Exit(2)
    /\ UNCHANGED <<call, ret, cmd, args, series, axis, writes, stdout, events>>

\* main, parse_args succeeds and plot_schedules is entered.
MainParse ==
    /\ pc = "main"
    /\ ~NoArguments
    /\ cmd.kind = "ok"
    /\ args' = parse_args(cmd)
    /\ events' = Append(events, "parse")
    /\ pc' = "plot"
    /\ UNCHANGED <<call, ret, cmd, series, axis, writes, stdout, stderr, exitCode>>

\* -------------------------------------------------------- plot_schedules
\* The output path is the generated one when args.output is the default's
\* value; then the figure is set up.
PlotResolveOutput ==
    /\ pc = "plot"
    /\ args' = IF args.output = DefaultOutput
               THEN [args EXCEPT !.output = generate_filename(args)]
               ELSE args
    /\ pc' = "sample"
    /\ UNCHANGED <<call, ret, cmd, series, axis, writes, stdout, stderr, exitCode, events>>

\* One round of the loop over args.powers: the samples of the next power.
\* An exception raised by a sample ends the process with a traceback.
PlotSample ==
    /\ pc = "sample"
    /\ Len(series) < Len(args.powers)
    /\ LET samples == lr_schedule(args, args.powers[Len(series) + 1])
       IN  IF \E i \in 1..NumSamples : samples[i].k = "raise"
           THEN /\ stderr' = Append(stderr, "Traceback: ZeroDivisionError")
                /\ Exit(1)
                /\ UNCHANGED <<series, events>>
           ELSE /\ series' = Append(series, samples)
                /\ events' = Append(events, "sample")
                /\ UNCHANGED <<pc, stderr, exitCode>>
    /\ UNCHANGED <<call, ret, cmd, args, axis, writes, stdout>>

\* After the loop: setup_log_scale, labels, title, legend, grid, ticks.
PlotScale ==
    /\ pc = "sample"
    /\ Len(series) = Len(args.powers)
    /\ axis' = setup_log_scale(args, args.log_scale)
    /\ events' = Append(events, "scale")
    /\ pc' = "save"
    /\ UNCHANGED <<call, ret, cmd, args, series, writes, stdout, stderr, exitCode>>

\* Variant: the summary is reached without the image being written.
PlotSave_no_write ==
    /\ pc = "save"
    /\ events' = Append(events, "save")
    /\ pc' = "print"
    /\ UNCHANGED <<call, ret, cmd, args, series, axis, writes, stdout, stderr, exitCode>>

\* plt.savefig writes the image.
PlotSave ==
    /\ pc = "save"
    /\ writes' = Append(writes, args.output)
    /\ events' = Append(events, "save")
    /\ pc' = "print"
    /\ UNCHANGED <<call, ret, cmd, args, series, axis, stdout, stderr, exitCode>>

\* plt.savefig fails (the path cannot be written): OSError, uncaught.
PlotSaveFails ==
    /\ pc = "save"
    /\ stderr' = Append(stderr, "Traceback: OSError")
    /\ Exit(1)
    /\ UNCHANGED <<call, ret, cmd, args, series, axis, writes, stdout, events>>

\* The three summary lines.
SummaryLines ==
    <<"Plot saved as " \o args.output,
      "Initial LR: " \o SciFormat(args.learning_rate, 1) \o ", Final LR: "
          \o SciFormat(args.lr_end, 1),
      "Scale type: " \o args.log_scale \o ", Notation: "
          \o (IF args.notation = "s" THEN "scientific" ELSE "decimal")>>

\* One print; after the third, main returns and the process exits with 0.
PlotPrint ==
    /\ pc = "print"
    /\ stdout' = Append(stdout, SummaryLines[Len(stdout) + 1])
    /\ events' = Append(events, "print")
    /\ IF Len(stdout) + 1 = Len(SummaryLines)
       THEN Exit(0)
       ELSE UNCHANGED <<pc, exitCode>>
    /\ UNCHANGED <<call, ret, cmd, args, series, axis, writes, stderr>>

Init ==
    /\ \E c \in Cmds : RunStart(c)
    /\ call = NoCall
    /\ ret = NoValue

Next ==
    \/ MainHelpExit
    \/ MainParseHelp
    \/ MainParseError
    \/ MainParse
    \/ PlotResolveOutput
    \/ PlotSample
    \/ PlotScale
    \/ PlotSave
    \/ PlotSaveFails
    \/ PlotPrint

Spec == Init /\ [][Next]_vars

\* -------------------------------------- direct calls of the schedule function
\* A direct call of calculate_lr_schedule with arbitrary arguments.
FnInit ==
    /\ call \in [t : TVals, total_steps : StepVals, init_lr : RateVals,
                 final_lr : RateVals, power : PowerVals,
                 warmup_steps : StepVals, np : BOOLEAN]
    /\ ret = NoValue
    /\ RunStart(OtherCmd("empty"))

CallSchedule ==
    /\ ret = NoValue
    /\ ret' = calculate_lr_schedule(call.t, call.total_steps, call.init_lr,
                                    call.final_lr, call.power,
                                    call.warmup_steps, call.np)
    /\ UNCHANGED call
    /\ UNCHANGED runvars

FnNext == CallSchedule

FnSpec == FnInit /\ [][FnNext]_vars

\* ------------------------------------------- claims on the schedule function
Called == ret.k # "none"

\* (t - warmup_steps) / (total_steps - warmup_steps), for
\* warmup_steps # total_steps.
ClaimedProgress ==
    Fin(call.t.n - call.warmup_steps * call.t.d,
        call.t.d * (call.total_steps - call.warmup_steps))

\* The value the schedule is specified to return.
ClaimedRate ==
    IF Lt(call.t, FromInt(call.warmup_steps))
    THEN Mul(call.init_lr, Fin(call.t.n, call.t.d * call.warmup_steps))
    ELSE IF Ge1(ClaimedProgress) THEN call.final_lr
    ELSE Add(call.final_lr,
             Mul(Sub(call.init_lr, call.final_lr),
                 Pow(Sub(One, ClaimedProgress), call.power, TRUE)))

C1_Pre == Le(Zero, call.t) /\ call.warmup_steps # call.total_steps

\* C1: for t >= 0 and warmup_steps # total_steps the call returns
\* init_lr * (t / warmup_steps) when t < warmup_steps, exactly final_lr when
\* progress >= 1, and final_lr + (init_lr - final_lr) * (1 - progress)^power
\* otherwise.
C1_PiecewiseFormula == (Called /\ C1_Pre) => ret = ClaimedRate

\* A call in the decay piece has returned, with 0 < progress < 1, a power
\* of 2 and distinct rates.
C1_Witness ==
    /\ Called /\ C1_Pre
    /\ ~Lt(call.t, FromInt(call.warmup_steps))
    /\ ~Ge1(ClaimedProgress) /\ Lt(Zero, ClaimedProgress)
    /\ call.power = 2 /\ call.init_lr # call.final_lr

AtTotal == call.t = FromInt(call.total_steps)

\* C2 as written: for all arguments, the call with t = total_steps returns
\* exactly final_lr.
C2_Original == (Called /\ AtTotal) => ret = call.final_lr

\* C2 amended: for warmup_steps < total_steps, the call with t = total_steps
\* returns exactly final_lr.
C2_FinalAtTotal ==
    (Called /\ AtTotal /\ call.warmup_steps < call.total_steps)
        => ret = call.final_lr

C2_Witness ==
    /\ Called /\ AtTotal /\ call.warmup_steps < call.total_steps
    /\ call.init_lr # call.final_lr /\ call.power = 0

AtWarmup == call.t = FromInt(call.warmup_steps)

\* C3 as written: for all arguments, the call with t = warmup_steps returns
\* init_lr.
C3_Original == (Called /\ AtWarmup) => ret = call.init_lr

\* C3 amended: for warmup_steps # total_steps, the call with
\* t = warmup_steps returns init_lr.
C3_InitAtWarmup ==
    (Called /\ AtWarmup /\ call.warmup_steps # call.total_steps)
        => ret = call.init_lr

C3_Witness ==
    /\ Called /\ AtWarmup /\ call.warmup_steps # call.total_steps
    /\ call.warmup_steps > 0 /\ call.init_lr # call.final_lr /\ call.power = 2

\* C4 as written: for every warmup_steps other than 0, the call with t = 0
\* returns 0.
C4_Original ==
    (Called /\ call.t = Zero /\ call.warmup_steps # 0) => ret = Zero

\* C4 amended: for every warmup_steps > 0, the call with t = 0 returns 0.
C4_ZeroAtStart ==
    (Called /\ call.t = Zero /\ call.warmup_steps > 0) => ret = Zero

C4_Witness ==
    /\ Called /\ call.t = Zero /\ call.warmup_steps > 0
    /\ call.init_lr # Zero /\ call.final_lr # Zero

C5_Pre ==
    /\ call.power = 1
    /\ call.warmup_steps < call.total_steps
    /\ Le(FromInt(call.warmup_steps), call.t)
    /\ Le(call.t, FromInt(call.total_steps))

\* C5: with power = 1 and warmup_steps <= t <= total_steps
\* (warmup_steps < total_steps) the call returns the linear interpolation
\* init_lr - (init_lr - final_lr) * (t - warmup_steps)
\*                                / (total_steps - warmup_steps).
C5_LinearDecay ==
    (Called /\ C5_Pre)
        => ret = Sub(call.init_lr,
                     Mul(Sub(call.init_lr, call.final_lr), ClaimedProgress))

\* A linear call strictly inside the decay, with distinct rates.
C5_Witness ==
    /\ Called /\ C5_Pre
    /\ Lt(Zero, ClaimedProgress) /\ ~Ge1(ClaimedProgress)
    /\ call.init_lr # call.final_lr

InWarmup == Lt(call.t, FromInt(call.warmup_steps))

C10_Pre ==
    /\ 0 <= call.warmup_steps /\ call.warmup_steps < call.total_steps
    /\ Le(call.final_lr, call.init_lr) /\ call.power >= 0
    /\ Le(Zero, call.t) /\ Le(call.t, FromInt(call.total_steps))

C10_Range ==
    /\ IsFin(ret)
    /\ Le(ret, call.init_lr)
    /\ InWarmup => Le(Zero, ret)
    /\ ~InWarmup => Le(call.final_lr, ret)

\* C10 as written: for 0 <= warmup_steps < total_steps, final_lr <= init_lr,
\* power >= 0 and 0 <= t <= total_steps, the returned rate never exceeds
\* init_lr, is never below 0 during warmup and never below final_lr during
\* decay.
C10_Original == (Called /\ C10_Pre) => C10_Range

\* C10 amended: the same, for init_lr >= 0.
C10_RateInRange ==
    (Called /\ C10_Pre /\ Le(Zero, call.init_lr)) => C10_Range

\* A decay sample strictly between a negative final_lr and init_lr.
C10_Witness ==
    /\ Called /\ C10_Pre /\ Le(Zero, call.init_lr)
    /\ ~InWarmup /\ call.power = 2
    /\ Lt(call.final_lr, ret) /\ Lt(ret, call.init_lr)
    /\ Lt(call.final_lr, Zero)

\* ------------------------------------------------------ claims on the run
\* The configuration the command line stands for.
Config == parse_args(cmd)

\* C6: whenever the user supplies an output path with -o, whatever its
\* value, the path is not replaced by the generated file name and the
\* image is saved to exactly the supplied path.
C6_ExplicitOutputKept ==
    (cmd.kind = "ok" /\ cmd.o # <<>>)
        => /\ pc \in {"sample", "save", "print", "exited"}
                => args.output = cmd.o[1]
           /\ writes # <<>> => writes = <<cmd.o[1]>>

HelpExitTaken == stdout = <<HelpText>> /\ exitCode = 1

\* C7: with no command-line arguments main prints the help text and exits
\* with code 1 without parsing, computing a series or writing an image;
\* with at least one argument it never takes this exit.
C7_NoArgsHelpExit ==
    /\ Argc(cmd) = 1 => pc \in {"main", "exited"}
    /\ (Argc(cmd) = 1 /\ pc = "exited")
        => /\ HelpExitTaken
           /\ args = NoArgs /\ events = <<>> /\ series = <<>>
           /\ writes = <<>> /\ stderr = <<>>
    /\ Argc(cmd) > 1 => ~HelpExitTaken

C7_Witness == Argc(cmd) = 1 /\ pc = "exited" /\ HelpExitTaken

Degenerate == cmd.kind = "ok" /\ Config.warmup >= Config.steps

\* C8 as written: every run with warmup >= steps ends in an uncaught fault
\* before the image is saved and before a summary line is printed.
C8_Original ==
    Degenerate
        => /\ writes = <<>> /\ stdout = <<>>
           /\ pc = "exited" => exitCode = 1

SeriesRaised ==
    \E i \in 1..Len(series) : \E j \in 1..NumSamples : series[i][j].k = "raise"

\* C8 amended: in a run with warmup >= steps the schedule computation raises
\* nothing (a zero divisor under numpy float64 gives nan or an infinity),
\* every series is computed, and the run ends with the image saved and the
\* three summary lines printed unless savefig itself fails.
C8_DegenerateRunCompletes ==
    Degenerate
        => /\ ~SeriesRaised
           /\ stderr \in {<<>>, <<"Traceback: OSError">>}
           /\ pc \in {"save", "print", "exited"}
                => Len(series) = Len(Config.powers)
           /\ (pc = "exited" /\ stderr = <<>>)
                => /\ exitCode = 0
                   /\ Len(writes) = 1
                   /\ Len(stdout) = 3

\* A run with warmup = steps that has ended with the image saved and the
\* summary printed, one of its samples being nan.
C8_Witness ==
    /\ Degenerate /\ Config.warmup = Config.steps
    /\ pc = "exited" /\ exitCode = 0 /\ Len(writes) = 1 /\ Len(stdout) = 3
    /\ \E i \in 1..Len(series) : series[i][NumSamples].k = "nan"

IsPrefix(a, b) == Len(a) <= Len(b) /\ a = SubSeq(b, 1, Len(a))

\* parse, one sampling per power, the axis scale, the save, three prints.
StageOrder(n) ==
    <<"parse">> \o [i \in 1..n |-> "sample"]
        \o <<"scale", "save", "print", "print", "print">>

\* C9: the stages of a run occur in the order parse, the series of every
\* power, the axis scale, the save; the image is written at most once, and
\* exactly once at the resolved output path in a successful run; a summary
\* line is printed only after that write.
C9_PipelineOrder ==
    cmd.kind = "ok"
        => /\ IsPrefix(events, StageOrder(Len(Config.powers)))
           /\ Len(writes) <= 1
           /\ writes # <<>> => writes = <<args.output>>
           /\ stdout # <<>>
                => /\ Len(writes) = 1
                   /\ IsPrefix(stdout, SummaryLines)
           /\ (pc = "exited" /\ exitCode = 0)
                => /\ events = StageOrder(Len(Config.powers))
                   /\ Len(series) = Len(Config.powers)
                   /\ axis # NoAxis
                   /\ Len(writes) = 1
                   /\ stdout = SummaryLines

\* A successful run over two powers.
C9_Witness ==
    /\ cmd.kind = "ok" /\ Len(cmd.p) = 2
    /\ pc = "exited" /\ exitCode = 0

====
